---- MODULE Spec2Model ----
(***************************************************************************)
(* Jabber (src/jabber.js): an express server over one sqlite database.     *)
(* The model follows the handlers of jabber.js step by step.  A handler    *)
(* is cut only where the code waits on I/O (a queued sqlite statement or   *)
(* an outbound HTTP call); everything the event loop runs without          *)
(* yielding is one action.                                                 *)
(*                                                                         *)
(* Values.  Every JavaScript / SQL scalar is an integer:                   *)
(*   Undefined (absent property), Null (JS null / SQL NULL),               *)
(*   Empty ('' or 0, the falsy present values), and n > 0 for a non-empty  *)
(*   string or a non-zero number.                                          *)
(***************************************************************************)
EXTENDS Integers, Sequences, FiniteSets, TLC

\* ---------------------------------------------------------------- bounds
\* Number of HTTP requests the environment sends (they may all be in flight
\* at once).
MaxReqs == 2
\* Number of 'tokens' events one calendar client emits.
MaxRefresh == 1

\* ---------------------------------------------------------------- values
Undefined == -2
Null == -1
Empty == 0

\* JavaScript truthiness of a scalar.
Falsy(v) == v <= 0

\* `x || null` (saveTokens' parameter list).
OrNull(v) == IF Falsy(v) THEN Null ELSE v

\* `x || ''` (POST /api/events' parameter list).
OrEmpty(v) == IF Falsy(v) THEN Empty ELSE v

\* Property read: obj.f is undefined when obj has no property f.
Get(obj, f) == IF f \in DOMAIN obj THEN obj[f] ELSE Undefined

\* Object spread {...a, ...b}.
Spread(a, b) ==
  [f \in (DOMAIN a) \cup (DOMAIN b) |-> IF f \in DOMAIN b THEN b[f] ELSE a[f]]

\* Columns of oauth_tokens besides id.
TokenFields == {"access_token", "refresh_token", "scope", "token_type", "expiry_date"}

\* A row of oauth_tokens.
TokenRow(id, cols) ==
  [f \in TokenFields \cup {"id"} |-> IF f = "id" THEN id ELSE cols[f]]

\* The row `INSERT INTO oauth_tokens (id) VALUES (1)` creates.
EmptyRow == TokenRow(1, [f \in TokenFields |-> Null])

\* A JS value that is no token object (null from loadTokens, or nothing yet).
NoTokens == [none |-> Undefined]

\* A request body / query without the fields a handler reads.
NoBody == [none |-> Undefined]

Kinds == {"chat", "memPost", "memGet", "evtPost", "evtGet", "authGoogle",
          "callback", "calList", "calCreate", "calUpdate", "calDelete",
          "images", "search"}

CalKinds == {"calList", "calCreate", "calUpdate", "calDelete"}

Reqs == 1..MaxReqs

VARIABLES
  env,          \* process.env as read at lines 33-37
  initPc,       \* position of the startup block db.serialize(...) (43-62)
  oauth_tokens, \* table oauth_tokens: a set of rows
  memories,     \* table memories: a set of rows
  memSeq,       \* AUTOINCREMENT counter of memories
  messages,     \* table messages: rows in insertion order
  events,       \* table events: a set of rows
  evtSeq,       \* AUTOINCREMENT counter of events
  reqs,         \* the requests: position of each handler and what it did
  issued,       \* tokens the OAuth provider has issued so far
  memLog,       \* history: memories rows in the order they were inserted
  lastSave      \* history: the last saveTokens statement that executed

vars == <<env, initPc, oauth_tokens, memories, memSeq, messages, events, evtSeq,
          reqs, issued, memLog, lastSave>>

\* ---------------------------------------------------------------- helpers
IdleReq ==
  [kind |-> "none", pc |-> "idle", body |-> NoBody,
   status |-> 0, err |-> "none", responses |-> 0,
   loads |-> 0, stored |-> "unread", remote |-> 0, writes |-> 0,
   tokens |-> NoTokens, payload |-> NoTokens, emitted |-> 0,
   savePending |-> FALSE, failed |-> "none", unhandled |-> FALSE,
   result |-> <<>>, logLen |-> 0, memSummary |-> <<>>,
   userIns |-> "none", asstIns |-> "none", reply |-> Undefined]

NoSave ==
  [kind |-> "none", by |-> 0, ok |-> FALSE, initDone |-> FALSE, affected |-> 0,
   pre |-> {}, post |-> {}, snapshot |-> NoTokens, payload |-> NoTokens]

\* res.status(s).json(...) / res.send(...): the handler answers and ends.
Respond(q, s, e) ==
  [q EXCEPT !.pc = "done", !.status = s, !.err = e, !.responses = @ + 1]

\* Variant of getOAuth2Client that forgets the redirect URI.
getOAuth2Client_NoRedirect ==
  IF Falsy(env.GOOGLE_CLIENT_ID) \/ Falsy(env.GOOGLE_CLIENT_SECRET)
  THEN FALSE ELSE TRUE

\* getOAuth2Client (65-68): null unless all three settings are non-empty.
getOAuth2Client ==
  IF Falsy(env.GOOGLE_CLIENT_ID) \/ Falsy(env.GOOGLE_CLIENT_SECRET)
     \/ Falsy(env.OAUTH_REDIRECT)
  THEN FALSE ELSE TRUE

\* SELECT * FROM oauth_tokens WHERE id=1, as loadTokens resolves it (69-73):
\* the row, or null when there is none or the statement failed.
loadTokens(ok) ==
  IF ok /\ \E row \in oauth_tokens : row.id = 1
  THEN CHOOSE row \in oauth_tokens : row.id = 1
  ELSE NoTokens

\* Variant of saveParams that binds no refresh token.
saveParams_DropRefresh(tokens) ==
  [f \in TokenFields |-> IF f = "refresh_token" THEN Null ELSE OrNull(Get(tokens, f))]

\* The parameter list of saveTokens' UPDATE (78).
saveParams(tokens) == [f \in TokenFields |-> OrNull(Get(tokens, f))]

\* UPDATE oauth_tokens SET ... WHERE id=1 (77).
saveTokens(table, tokens) ==
  {IF row.id = 1 THEN TokenRow(row.id, saveParams(tokens)) ELSE row : row \in table}

\* What the token store holds for getCalendarClient's test (87).
StoredState ==
  IF ~\E row \in oauth_tokens : row.id = 1 THEN "norow"
  ELSE IF \E row \in oauth_tokens : row.id = 1 /\ Falsy(row.access_token) THEN "empty"
  ELSE "token"

\* A token response of the OAuth provider: the fields of `shape`, freshly issued.
Issue(shape, n) == [f \in shape |-> n]

\* Token-endpoint responses to an authorization-code exchange: access_token is
\* always there, refresh_token only when the grant is offline + consent.
ExchangeShapes == {TokenFields, TokenFields \ {"refresh_token"}}

\* Token-endpoint responses to a refresh.
RefreshShapes == {{"access_token", "expiry_date"},
                  {"access_token", "expiry_date", "scope", "token_type"}}

\* ---------------------------------------------------------------- startup
\* Lines 32-37 and 43-62: the environment is read, the tables exist, and the
\* SELECT of line 61 is queued.  The database file outlives the process, so
\* oauth_tokens is empty (first run), holds the empty row, or holds a
\* credential saved by an earlier run; memories likewise may hold a row of an
\* earlier run.
Init ==
  /\ env \in [GOOGLE_CLIENT_ID : {Empty, 1}, GOOGLE_CLIENT_SECRET : {Empty, 1},
              OAUTH_REDIRECT : {Empty, 1}, OPENAI_API_KEY : {Empty, 1}]
  /\ initPc = "select"
  /\ oauth_tokens \in {{}, {EmptyRow}, {TokenRow(1, [f \in TokenFields |-> 1])}}
  /\ memLog \in {<<>>, <<[id |-> 1, key |-> 1, value |-> 1]>>}
  /\ memories = {memLog[i] : i \in 1..Len(memLog)}
  /\ memSeq = Len(memLog)
  /\ messages = <<>>
  /\ events = {}
  /\ evtSeq = 0
  /\ reqs = [r \in Reqs |-> IdleReq]
  /\ issued = 1
  /\ lastSave = NoSave

\* Line 61, the SELECT and its callback: (e, row) => !row && db.run(INSERT).
InitSelect(ok) ==
  /\ initPc = "select"
  /\ initPc' = IF ok /\ \E row \in oauth_tokens : row.id = 1 THEN "done" ELSE "insert"
  /\ UNCHANGED <<env, oauth_tokens, memories, memSeq, messages, events, evtSeq,
                 reqs, issued, memLog, lastSave>>

\* Variant of insertTokenRow on a table without the primary key.
insertTokenRow_NoConstraint(table, ok) ==
  IF ok THEN table \cup {EmptyRow} ELSE table

\* INSERT INTO oauth_tokens (id) VALUES (1) under PRIMARY KEY CHECK (id=1) (58):
\* a second row with id 1 is rejected.
insertTokenRow(table, ok) ==
  IF ok /\ ~\E row \in table : row.id = 1 THEN table \cup {EmptyRow} ELSE table

\* Line 61, the INSERT.
InitInsert(ok) ==
  /\ initPc = "insert"
  /\ oauth_tokens' = insertTokenRow(oauth_tokens, ok)
  /\ initPc' = IF \E row \in oauth_tokens' : row.id = 1 THEN "done" ELSE "failed"
  /\ UNCHANGED <<env, memories, memSeq, messages, events, evtSeq,
                 reqs, issued, memLog, lastSave>>

\* A statement of a request runs after the startup SELECT, which was queued
\* first and in serialized mode.
DbReady == initPc # "select"

\* The next request arrives on the lowest free slot.
CanArrive(r) ==
  /\ reqs[r].pc = "idle"
  /\ \A s \in Reqs : s < r => reqs[s].pc # "idle"

New(k, b) == [IdleReq EXCEPT !.kind = k, !.body = b]

\* ---------------------------------------------------------------- OAuth
\* GET /auth/google (362-371).
AuthGoogle(r) ==
  /\ CanArrive(r)
  /\ reqs' = [reqs EXCEPT ![r] =
       IF ~getOAuth2Client
       THEN Respond(New("authGoogle", NoBody), 500, "NotConfigured")
       ELSE Respond(New("authGoogle", NoBody), 302, "none")]
  /\ UNCHANGED <<env, initPc, oauth_tokens, memories, memSeq, messages, events,
                 evtSeq, issued, memLog, lastSave>>

\* GET /oauth2callback, up to the await of o.getToken(code) (373-377).
CallbackArrive(r, code) ==
  /\ CanArrive(r)
  /\ LET q == New("callback", [code |-> code])
     IN reqs' = [reqs EXCEPT ![r] =
          IF Falsy(code) \/ ~getOAuth2Client
          THEN Respond(q, 400, "MissingCodeOrClient")
          ELSE [q EXCEPT !.pc = "exchanging", !.remote = @ + 1]]
  /\ UNCHANGED <<env, initPc, oauth_tokens, memories, memSeq, messages, events,
                 evtSeq, issued, memLog, lastSave>>

\* Variant of ExchangeDone whose failure path still saves.
ExchangeDone_SaveAnyway(r, ok, shape) ==
  /\ reqs[r].kind = "callback" /\ reqs[r].pc = "exchanging"
  /\ issued' = IF ok THEN issued + 1 ELSE issued
  /\ reqs' = [reqs EXCEPT ![r] =
       [@ EXCEPT !.pc = "saving",
                 !.failed = IF ok THEN "none" ELSE "outbound",
                 !.tokens = IF ok THEN Issue(shape, issued + 1) ELSE NoTokens]]
  /\ UNCHANGED <<env, initPc, oauth_tokens, memories, memSeq, messages, events,
                 evtSeq, memLog, lastSave>>

\* o.getToken(code) settles (377): on success saveTokens(tokens) is queued,
\* on failure the catch of line 380 answers 500.
ExchangeDone(r, ok, shape) ==
  /\ reqs[r].kind = "callback" /\ reqs[r].pc = "exchanging"
  /\ IF ok
     THEN /\ issued' = issued + 1
          /\ reqs' = [reqs EXCEPT ![r] =
               [@ EXCEPT !.pc = "saving", !.tokens = Issue(shape, issued + 1)]]
     ELSE /\ issued' = issued
          /\ reqs' = [reqs EXCEPT ![r] =
               Respond([@ EXCEPT !.failed = "outbound"], 500, "ExchangeFailed")]
  /\ UNCHANGED <<env, initPc, oauth_tokens, memories, memSeq, messages, events,
                 evtSeq, memLog, lastSave>>

\* The history record of one executed saveTokens statement.
SaveRecord(k, r, ok, snapshot, payload, post) ==
  [kind |-> k, by |-> r, ok |-> ok, initDone |-> (initPc = "done"),
   affected |-> IF ok THEN Cardinality({row \in oauth_tokens : row.id = 1}) ELSE 0,
   pre |-> oauth_tokens, post |-> post, snapshot |-> snapshot, payload |-> payload]

\* saveTokens(tokens) of line 378 executes; then 379 or the catch of 380.
CallbackSaveDone(r, ok) ==
  /\ reqs[r].kind = "callback" /\ reqs[r].pc = "saving"
  /\ DbReady
  /\ oauth_tokens' = IF ok THEN saveTokens(oauth_tokens, reqs[r].tokens) ELSE oauth_tokens
  /\ lastSave' = SaveRecord("callback", r, ok, NoTokens, reqs[r].tokens, oauth_tokens')
  /\ reqs' = [reqs EXCEPT ![r] =
       IF ok THEN Respond([@ EXCEPT !.writes = @ + 1], 200, "none")
       ELSE Respond([@ EXCEPT !.failed = "storage"], 500, "ExchangeFailed")]
  /\ UNCHANGED <<env, initPc, memories, memSeq, messages, events, evtSeq,
                 issued, memLog>>

\* ---------------------------------------------------------------- calendar
CalBodies(k) ==
  IF k = "calCreate"
  THEN [title : {Undefined, 1}, start : {Empty, 1}, end : {Undefined, 1}]
  ELSE {NoBody}

\* Variant of CalArrive whose create route does not require end.
CalArrive_NoEndCheck(r, k, b) ==
  /\ CanArrive(r)
  /\ k \in CalKinds /\ b \in CalBodies(k)
  /\ LET q == New(k, b)
     IN reqs' = [reqs EXCEPT ![r] =
          IF k = "calCreate" /\ (Falsy(b.title) \/ Falsy(b.start))
          THEN Respond(q, 400, "Validation")
          ELSE IF ~getOAuth2Client
          THEN Respond(q, 500, "NotConfigured")
          ELSE [q EXCEPT !.pc = "loading"]]
  /\ UNCHANGED <<env, initPc, oauth_tokens, memories, memSeq, messages, events,
                 evtSeq, issued, memLog, lastSave>>

\* The four calendar routes (382-414) up to the await inside getCalendarClient:
\* create validates first (394); getOAuth2Client (84-85); loadTokens is queued.
CalArrive(r, k, b) ==
  /\ CanArrive(r)
  /\ k \in CalKinds /\ b \in CalBodies(k)
  /\ LET q == New(k, b)
     IN reqs' = [reqs EXCEPT ![r] =
          IF k = "calCreate" /\ (Falsy(b.title) \/ Falsy(b.start) \/ Falsy(b.end))
          THEN Respond(q, 400, "Validation")
          ELSE IF ~getOAuth2Client
          THEN Respond(q, 500, "NotConfigured")
          ELSE [q EXCEPT !.pc = "loading"]]
  /\ UNCHANGED <<env, initPc, oauth_tokens, memories, memSeq, messages, events,
                 evtSeq, issued, memLog, lastSave>>

\* Variant of hasToken that tests only that a row came back.
hasToken_RowOnly(tokens) == tokens # NoTokens

\* getCalendarClient's test of line 87.
hasToken(tokens) == ~(tokens = NoTokens \/ Falsy(Get(tokens, "access_token")))

\* loadTokens settles (86): either the throw of 87, caught by the route and
\* answered 500, or the client is built (88-90) and the route issues its one
\* remote call.
LoadTokensDone(r, ok) ==
  /\ reqs[r].kind \in CalKinds /\ reqs[r].pc = "loading"
  /\ DbReady
  /\ LET tokens == loadTokens(ok)
         q == [reqs[r] EXCEPT !.loads = @ + 1, !.stored = StoredState]
     IN reqs' = [reqs EXCEPT ![r] =
          IF ~hasToken(tokens)
          THEN Respond([q EXCEPT !.failed = IF ok THEN "none" ELSE "storage"],
                       500, "NotAuthenticated")
          ELSE [q EXCEPT !.pc = "calling", !.tokens = tokens, !.remote = @ + 1]]
  /\ UNCHANGED <<env, initPc, oauth_tokens, memories, memSeq, messages, events,
                 evtSeq, issued, memLog, lastSave>>

\* The OAuth client refreshes the access token during the remote call and
\* emits 'tokens'; the listener of line 89 queues saveTokens({...tokens, ...t}).
TokensEvent(r, shape) ==
  /\ reqs[r].kind \in CalKinds /\ reqs[r].pc = "calling"
  /\ reqs[r].emitted < MaxRefresh /\ ~reqs[r].savePending
  /\ shape \in RefreshShapes
  /\ issued' = issued + 1
  /\ reqs' = [reqs EXCEPT ![r] =
       [@ EXCEPT !.emitted = @ + 1, !.savePending = TRUE,
                 !.payload = Issue(shape, issued + 1)]]
  /\ UNCHANGED <<env, initPc, oauth_tokens, memories, memSeq, messages, events,
                 evtSeq, memLog, lastSave>>

\* Variant of listenerTokens that saves the payload alone.
listenerTokens_PayloadOnly(tokens, t) == t

\* What the listener of line 89 hands to saveTokens.
listenerTokens(tokens, t) == Spread(tokens, t)

\* The listener's saveTokens executes; a failure is swallowed by .catch(()=>{}).
ListenerSaveDone(r, ok) ==
  /\ reqs[r].savePending
  /\ DbReady
  /\ LET merged == listenerTokens(reqs[r].tokens, reqs[r].payload)
     IN /\ oauth_tokens' = IF ok THEN saveTokens(oauth_tokens, merged) ELSE oauth_tokens
        /\ lastSave' = SaveRecord("listener", r, ok, reqs[r].tokens, reqs[r].payload,
                                  oauth_tokens')
  /\ reqs' = [reqs EXCEPT ![r] =
       [@ EXCEPT !.savePending = FALSE, !.writes = IF ok THEN @ + 1 ELSE @]]
  /\ UNCHANGED <<env, initPc, memories, memSeq, messages, events, evtSeq,
                 issued, memLog>>

\* The remote calendar call settles (387/397/404/411): 200, or the catch's 500.
CalRemoteDone(r, ok) ==
  /\ reqs[r].kind \in CalKinds /\ reqs[r].pc = "calling"
  /\ reqs' = [reqs EXCEPT ![r] =
       IF ok THEN Respond(@, 200, "none")
       ELSE Respond([@ EXCEPT !.failed = "outbound"], 500, "Provider")]
  /\ UNCHANGED <<env, initPc, oauth_tokens, memories, memSeq, messages, events,
                 evtSeq, issued, memLog, lastSave>>

\* ---------------------------------------------------------------- chat
\* The fixed replies of lines 306 and 322.
NotConfiguredReply == 100
SorryReply == 101

\* Variant of OrderByIdDesc that orders ascending.
RECURSIVE OrderByIdAsc(_)
OrderByIdAsc(rows) ==
  IF rows = {} THEN <<>>
  ELSE LET low == CHOOSE x \in rows : \A y \in rows : x.id <= y.id
       IN <<low>> \o OrderByIdAsc(rows \ {low})

\* ORDER BY id DESC over a table with unique ids.
RECURSIVE OrderByIdDesc(_)
OrderByIdDesc(rows) ==
  IF rows = {} THEN <<>>
  ELSE LET top == CHOOSE x \in rows : \A y \in rows : y.id <= x.id
       IN <<top>> \o OrderByIdDesc(rows \ {top})

\* rows.map(r => `${r.key}: ${r.value}`) (300): one (key, value) entry per row.
RECURSIVE MapKeyValue(_)
MapKeyValue(rows) ==
  IF rows = <<>> THEN <<>>
  ELSE <<<<Head(rows).key, Head(rows).value>>>> \o MapKeyValue(Tail(rows))

\* POST /api/chat up to the await of the memories query (294-297).
ChatArrive(r, message) ==
  /\ CanArrive(r)
  /\ LET q == New("chat", [message |-> message])
     IN reqs' = [reqs EXCEPT ![r] =
          IF Falsy(message) THEN Respond(q, 400, "Validation")
          ELSE [q EXCEPT !.pc = "summarising"]]
  /\ UNCHANGED <<env, initPc, oauth_tokens, memories, memSeq, messages, events,
                 evtSeq, issued, memLog, lastSave>>

\* The memories query settles (298-302; an error resolves ''), the user row's
\* INSERT is queued without a callback (304), then either the fixed reply of
\* 306 or the completion request of 308 is sent.
ChatMemDone(r, ok) ==
  /\ reqs[r].kind = "chat" /\ reqs[r].pc = "summarising"
  /\ DbReady
  /\ LET q == [reqs[r] EXCEPT
                 !.memSummary = IF ok THEN MapKeyValue(OrderByIdDesc(memories)) ELSE <<>>,
                 !.userIns = "queued"]
     IN reqs' = [reqs EXCEPT ![r] =
          IF Falsy(env.OPENAI_API_KEY)
          THEN Respond([q EXCEPT !.reply = NotConfiguredReply], 200, "none")
          ELSE [q EXCEPT !.pc = "fetching", !.remote = @ + 1]]
  /\ UNCHANGED <<env, initPc, oauth_tokens, memories, memSeq, messages, events,
                 evtSeq, issued, memLog, lastSave>>

\* data?.choices?.[0]?.message?.content || 'Sorry, I could not respond.' (322).
replyOf(content) == IF Falsy(content) THEN SorryReply ELSE content

\* fetch and resp.json() settle (308-321): the reply is computed, the assistant
\* row's INSERT is queued (323) and the reply sent (324); a rejection goes to
\* the catch of 325.
ChatFetchDone(r, ok, content) ==
  /\ reqs[r].kind = "chat" /\ reqs[r].pc = "fetching"
  /\ reqs' = [reqs EXCEPT ![r] =
       IF ok
       THEN Respond([@ EXCEPT !.reply = replyOf(content), !.asstIns = "queued"],
                    200, "none")
       ELSE Respond([@ EXCEPT !.failed = "outbound"], 500, "ChatFailed")]
  /\ UNCHANGED <<env, initPc, oauth_tokens, memories, memSeq, messages, events,
                 evtSeq, issued, memLog, lastSave>>

\* One of the INSERTs into messages (304, 323) executes.  It has no callback:
\* sqlite3 reports its failure as an 'error' event on db, which nothing
\* listens to.
MsgInsertDone(r, role, ok) ==
  /\ DbReady
  /\ \/ /\ role = "user" /\ reqs[r].userIns = "queued"
        /\ reqs' = [reqs EXCEPT ![r] =
             [@ EXCEPT !.userIns = IF ok THEN "done" ELSE "failed",
                       !.writes = IF ok THEN @ + 1 ELSE @,
                       !.unhandled = @ \/ ~ok]]
        /\ messages' = IF ok
             THEN Append(messages, [id |-> Len(messages) + 1, role |-> "user",
                                    content |-> reqs[r].body.message])
             ELSE messages
     \/ /\ role = "assistant" /\ reqs[r].asstIns = "queued"
        /\ reqs' = [reqs EXCEPT ![r] =
             [@ EXCEPT !.asstIns = IF ok THEN "done" ELSE "failed",
                       !.writes = IF ok THEN @ + 1 ELSE @,
                       !.unhandled = @ \/ ~ok]]
        /\ messages' = IF ok
             THEN Append(messages, [id |-> Len(messages) + 1, role |-> "assistant",
                                    content |-> reqs[r].reply])
             ELSE messages
  /\ UNCHANGED <<env, initPc, oauth_tokens, memories, memSeq, events, evtSeq,
                 issued, memLog, lastSave>>

\* ---------------------------------------------------------------- memories
\* POST /api/memories up to the INSERT's callback (332-334).
MemPostArrive(r, key, value) ==
  /\ CanArrive(r)
  /\ LET q == New("memPost", [key |-> key, value |-> value])
     IN reqs' = [reqs EXCEPT ![r] =
          IF Falsy(key) \/ Falsy(value) THEN Respond(q, 400, "Validation")
          ELSE [q EXCEPT !.pc = "inserting"]]
  /\ UNCHANGED <<env, initPc, oauth_tokens, memories, memSeq, messages, events,
                 evtSeq, issued, memLog, lastSave>>

\* INSERT INTO memories(key,value): the row gets the next AUTOINCREMENT id.
insertMemory(table, seq, key, value) ==
  table \cup {[id |-> seq + 1, key |-> key, value |-> value]}

\* The INSERT executes and its callback answers (334-337).
MemInsertDone(r, ok) ==
  /\ reqs[r].kind = "memPost" /\ reqs[r].pc = "inserting"
  /\ DbReady
  /\ IF ok
     THEN /\ memories' = insertMemory(memories, memSeq, reqs[r].body.key, reqs[r].body.value)
          /\ memSeq' = memSeq + 1
          /\ memLog' = Append(memLog, [id |-> memSeq + 1, key |-> reqs[r].body.key,
                                       value |-> reqs[r].body.value])
          /\ reqs' = [reqs EXCEPT ![r] =
               Respond([@ EXCEPT !.writes = @ + 1, !.result = <<memSeq + 1>>], 200, "none")]
     ELSE /\ UNCHANGED <<memories, memSeq, memLog>>
          /\ reqs' = [reqs EXCEPT ![r] =
               Respond([@ EXCEPT !.failed = "storage"], 500, "Storage")]
  /\ UNCHANGED <<env, initPc, oauth_tokens, messages, events, evtSeq, issued, lastSave>>

\* GET /api/memories up to the query's callback (339-340).
MemGetArrive(r) ==
  /\ CanArrive(r)
  /\ reqs' = [reqs EXCEPT ![r] = [New("memGet", NoBody) EXCEPT !.pc = "listing"]]
  /\ UNCHANGED <<env, initPc, oauth_tokens, memories, memSeq, messages, events,
                 evtSeq, issued, memLog, lastSave>>

\* SELECT ... FROM memories ORDER BY id DESC executes and is answered (340-343).
MemListDone(r, ok) ==
  /\ reqs[r].kind = "memGet" /\ reqs[r].pc = "listing"
  /\ DbReady
  /\ reqs' = [reqs EXCEPT ![r] =
       IF ok
       THEN Respond([@ EXCEPT !.result = OrderByIdDesc(memories), !.logLen = Len(memLog)],
                    200, "none")
       ELSE Respond([@ EXCEPT !.failed = "storage"], 500, "Storage")]
  /\ UNCHANGED <<env, initPc, oauth_tokens, memories, memSeq, messages, events,
                 evtSeq, issued, memLog, lastSave>>

\* ---------------------------------------------------------------- events
EvtBodies ==
  {[title |-> t, start |-> s, end |-> o, description |-> o, timezone |-> o] :
     t \in {Undefined, 1}, s \in {Empty, 1, 2}, o \in {Undefined, 1}}

\* POST /api/events up to the INSERT's callback (348-350).
EvtPostArrive(r, b) ==
  /\ CanArrive(r)
  /\ b \in EvtBodies
  /\ reqs' = [reqs EXCEPT ![r] =
       IF Falsy(b.title) \/ Falsy(b.start) THEN Respond(New("evtPost", b), 400, "Validation")
       ELSE [New("evtPost", b) EXCEPT !.pc = "inserting"]]
  /\ UNCHANGED <<env, initPc, oauth_tokens, memories, memSeq, messages, events,
                 evtSeq, issued, memLog, lastSave>>

\* The row of line 351.
eventRow(id, b) ==
  [id |-> id, title |-> b.title, description |-> OrEmpty(b.description),
   start |-> b.start, end |-> OrEmpty(b.end), timezone |-> OrEmpty(b.timezone)]

\* The INSERT executes and its callback answers (350-352).
EvtInsertDone(r, ok) ==
  /\ reqs[r].kind = "evtPost" /\ reqs[r].pc = "inserting"
  /\ DbReady
  /\ IF ok
     THEN /\ events' = events \cup {eventRow(evtSeq + 1, reqs[r].body)}
          /\ evtSeq' = evtSeq + 1
          /\ reqs' = [reqs EXCEPT ![r] =
               Respond([@ EXCEPT !.writes = @ + 1, !.result = <<evtSeq + 1>>], 200, "none")]
     ELSE /\ UNCHANGED <<events, evtSeq>>
          /\ reqs' = [reqs EXCEPT ![r] =
               Respond([@ EXCEPT !.failed = "storage"], 500, "Storage")]
  /\ UNCHANGED <<env, initPc, oauth_tokens, memories, memSeq, messages, issued,
                 memLog, lastSave>>

\* GET /api/events up to the query's callback (355-356).
EvtGetArrive(r) ==
  /\ CanArrive(r)
  /\ reqs' = [reqs EXCEPT ![r] = [New("evtGet", NoBody) EXCEPT !.pc = "listing"]]
  /\ UNCHANGED <<env, initPc, oauth_tokens, memories, memSeq, messages, events,
                 evtSeq, issued, memLog, lastSave>>

\* The results ORDER BY start ASC allows: rows with equal start come in any order.
OrderByStartAsc(rows) ==
  {s \in [1..Cardinality(rows) -> rows] :
     /\ \A i, j \in DOMAIN s : i # j => s[i] # s[j]
     /\ \A i, j \in DOMAIN s : i < j => s[i].start <= s[j].start}

\* SELECT ... FROM events ORDER BY start ASC executes and is answered (356-358).
EvtListDone(r, ok, rows) ==
  /\ reqs[r].kind = "evtGet" /\ reqs[r].pc = "listing"
  /\ DbReady
  /\ rows \in OrderByStartAsc(events)
  /\ reqs' = [reqs EXCEPT ![r] =
       IF ok THEN Respond([@ EXCEPT !.result = rows], 200, "none")
       ELSE Respond([@ EXCEPT !.failed = "storage"], 500, "Storage")]
  /\ UNCHANGED <<env, initPc, oauth_tokens, memories, memSeq, messages, events,
                 evtSeq, issued, memLog, lastSave>>

\* ---------------------------------------------------------------- images, search
\* POST /api/images up to the await of fetch (418-421).
ImagesArrive(r, prompt) ==
  /\ CanArrive(r)
  /\ LET q == New("images", [prompt |-> prompt])
     IN reqs' = [reqs EXCEPT ![r] =
          IF Falsy(prompt) THEN Respond(q, 400, "Validation")
          ELSE IF Falsy(env.OPENAI_API_KEY) THEN Respond(q, 400, "KeyMissing")
          ELSE [q EXCEPT !.pc = "fetching", !.remote = @ + 1]]
  /\ UNCHANGED <<env, initPc, oauth_tokens, memories, memSeq, messages, events,
                 evtSeq, issued, memLog, lastSave>>

\* fetch and r.json() settle (421-427).  The handler has no try/catch: a
\* rejection rejects the handler's promise, which express 4 does not observe.
ImagesFetchDone(r, ok) ==
  /\ reqs[r].kind = "images" /\ reqs[r].pc = "fetching"
  /\ reqs' = [reqs EXCEPT ![r] =
       IF ok THEN Respond(@, 200, "none")
       ELSE [@ EXCEPT !.pc = "rejected", !.failed = "outbound", !.unhandled = TRUE]]
  /\ UNCHANGED <<env, initPc, oauth_tokens, memories, memSeq, messages, events,
                 evtSeq, issued, memLog, lastSave>>

\* GET /api/search up to the await of fetch (432-434).
SearchArrive(r, q0) ==
  /\ CanArrive(r)
  /\ LET q == New("search", [q |-> q0])
     IN reqs' = [reqs EXCEPT ![r] =
          IF Falsy(q0) THEN Respond(q, 400, "Validation")
          ELSE [q EXCEPT !.pc = "fetching", !.remote = @ + 1]]
  /\ UNCHANGED <<env, initPc, oauth_tokens, memories, memSeq, messages, events,
                 evtSeq, issued, memLog, lastSave>>

\* fetch and r.json() settle (434-436).
SearchFetchDone(r, ok) ==
  /\ reqs[r].kind = "search" /\ reqs[r].pc = "fetching"
  /\ reqs' = [reqs EXCEPT ![r] =
       IF ok THEN Respond(@, 200, "none")
       ELSE Respond([@ EXCEPT !.failed = "outbound"], 500, "SearchFailed")]
  /\ UNCHANGED <<env, initPc, oauth_tokens, memories, memSeq, messages, events,
                 evtSeq, issued, memLog, lastSave>>

\* ---------------------------------------------------------------- specification
Startup ==
  \/ \E ok \in BOOLEAN : InitSelect(ok)
  \/ \E ok \in BOOLEAN : InitInsert(ok)

\* The OAuth and calendar routes.
NextOAuth ==
  \/ Startup
  \/ \E r \in Reqs : AuthGoogle(r)
  \/ \E r \in Reqs, code \in {Undefined, 1} : CallbackArrive(r, code)
  \/ \E r \in Reqs, ok \in BOOLEAN, shape \in ExchangeShapes : ExchangeDone(r, ok, shape)
  \/ \E r \in Reqs, ok \in BOOLEAN : CallbackSaveDone(r, ok)
  \/ \E r \in Reqs, k \in CalKinds : \E b \in CalBodies(k) : CalArrive(r, k, b)
  \/ \E r \in Reqs, ok \in BOOLEAN : LoadTokensDone(r, ok)
  \/ \E r \in Reqs, shape \in RefreshShapes : TokensEvent(r, shape)
  \/ \E r \in Reqs, ok \in BOOLEAN : ListenerSaveDone(r, ok)
  \/ \E r \in Reqs, ok \in BOOLEAN : CalRemoteDone(r, ok)

\* The chat, memory, local-event, image and search routes.
NextLocal ==
  \/ Startup
  \/ \E r \in Reqs, m \in {Undefined, Empty, 1} : ChatArrive(r, m)
  \/ \E r \in Reqs, ok \in BOOLEAN : ChatMemDone(r, ok)
  \/ \E r \in Reqs, ok \in BOOLEAN, c \in {Undefined, 2} : ChatFetchDone(r, ok, c)
  \/ \E r \in Reqs, role \in {"user", "assistant"}, ok \in BOOLEAN : MsgInsertDone(r, role, ok)
  \/ \E r \in Reqs, k \in {Undefined, 1}, v \in {Empty, 1, 2} : MemPostArrive(r, k, v)
  \/ \E r \in Reqs, ok \in BOOLEAN : MemInsertDone(r, ok)
  \/ \E r \in Reqs : MemGetArrive(r)
  \/ \E r \in Reqs, ok \in BOOLEAN : MemListDone(r, ok)
  \/ \E r \in Reqs, b \in EvtBodies : EvtPostArrive(r, b)
  \/ \E r \in Reqs, ok \in BOOLEAN : EvtInsertDone(r, ok)
  \/ \E r \in Reqs : EvtGetArrive(r)
  \/ \E r \in Reqs, ok \in BOOLEAN : \E rows \in OrderByStartAsc(events) : EvtListDone(r, ok, rows)
  \/ \E r \in Reqs, p \in {Undefined, 1} : ImagesArrive(r, p)
  \/ \E r \in Reqs, ok \in BOOLEAN : ImagesFetchDone(r, ok)
  \/ \E r \in Reqs, q0 \in {Undefined, 1} : SearchArrive(r, q0)
  \/ \E r \in Reqs, ok \in BOOLEAN : SearchFetchDone(r, ok)

Next == NextOAuth \/ NextLocal

\* Every route, on a database whose startup row exists and whose memories
\* table is new.
InitAllRoutes == Init /\ oauth_tokens = {EmptyRow} /\ memLog = <<>>
Spec == InitAllRoutes /\ [][Next]_vars

\* The OAuth and calendar routes alone, under every OAuth configuration and
\* every state of oauth_tokens.
InitOAuth == Init /\ env.OPENAI_API_KEY = 1 /\ memLog = <<>>
SpecOAuth == InitOAuth /\ [][NextOAuth]_vars

\* The routes that never read oauth_tokens, alone, with and without the AI key
\* and with and without an earlier memory.
InitLocal == Init /\ getOAuth2Client /\ oauth_tokens = {EmptyRow}
SpecLocal == InitLocal /\ [][NextLocal]_vars

\* ---------------------------------------------------------------- properties
\* Client id, client secret and redirect URI are all set in the environment.
OAuthConfigured ==
  /\ env.GOOGLE_CLIENT_ID > 0
  /\ env.GOOGLE_CLIENT_SECRET > 0
  /\ env.OAUTH_REDIRECT > 0

\* The request passed its route's own validation (only create has one).
CalValid(q) ==
  q.kind = "calCreate" =>
    ~(Falsy(q.body.title) \/ Falsy(q.body.start) \/ Falsy(q.body["end"]))

\* C1: a calendar request (list, create with valid fields, update, delete)
\* whose loadTokens query ran while OAuth is configured and the stored
\* Credential had no access token (empty row, or no row) has ended with the
\* NotAuthenticated error, answered once with status 500, and has issued no
\* remote call.
C1_NotAuthenticatedNoRemoteCall ==
  \A r \in Reqs :
    (reqs[r].kind \in CalKinds /\ OAuthConfigured
       /\ reqs[r].stored \in {"norow", "empty"})
    => /\ reqs[r].pc = "done"
       /\ reqs[r].err = "NotAuthenticated"
       /\ reqs[r].status = 500
       /\ reqs[r].responses = 1
       /\ reqs[r].remote = 0

C1_Witness ==
  \E r \in Reqs :
    /\ reqs[r].kind = "calCreate" /\ CalValid(reqs[r])
    /\ OAuthConfigured
    /\ reqs[r].stored = "empty"
    /\ reqs[r].err = "NotAuthenticated"

\* C2: when client id, client secret or redirect URI is unset, a calendar
\* request that reaches getCalendarClient ends with the NotConfigured error
\* (status 500) and never reads the Token Store nor issues a remote call.
C2_NotConfiguredBeforeLoad ==
  \A r \in Reqs :
    (reqs[r].kind \in CalKinds /\ CalValid(reqs[r]) /\ ~OAuthConfigured)
    => /\ reqs[r].pc = "done"
       /\ reqs[r].err = "NotConfigured"
       /\ reqs[r].status = 500
       /\ reqs[r].loads = 0
       /\ reqs[r].stored = "unread"
       /\ reqs[r].remote = 0

C2_Witness ==
  \E r \in Reqs :
    /\ reqs[r].kind = "calList"
    /\ ~Falsy(env.GOOGLE_CLIENT_ID) /\ ~Falsy(env.GOOGLE_CLIENT_SECRET)
    /\ Falsy(env.OAUTH_REDIRECT)
    /\ reqs[r].err = "NotConfigured"

\* The row with id 1 of a one-row table.
TheRow(table) == CHOOSE row \in table : row.id = 1

\* The last saveTokens was a listener's, it succeeded, its payload had only an
\* access token and an expiry, and the stored Credential it met was the one its
\* client had loaded (nothing wrote in between), with refresh token and scope.
SequentialRefresh ==
  /\ lastSave.kind = "listener" /\ lastSave.ok
  /\ DOMAIN lastSave.payload = {"access_token", "expiry_date"}
  /\ lastSave.pre = {lastSave.snapshot}
  /\ ~Falsy(lastSave.snapshot.refresh_token)
  /\ ~Falsy(lastSave.snapshot.scope)

\* C3: after a sequential refresh whose payload has only a new access token
\* and expiry, the stored Credential has the original refresh token, scope and
\* token type and the payload's access token and expiry.
C3_RefreshKeepsRefreshToken ==
  SequentialRefresh =>
    /\ Cardinality(lastSave.post) = 1
    /\ LET old == lastSave.snapshot
           new == TheRow(lastSave.post)
       IN /\ new.refresh_token = old.refresh_token
          /\ new.scope = old.scope
          /\ new.token_type = old.token_type
          /\ new.access_token = lastSave.payload.access_token
          /\ new.expiry_date = lastSave.payload.expiry_date

C3_Witness ==
  /\ SequentialRefresh
  /\ TheRow(lastSave.post).access_token # lastSave.snapshot.access_token
  /\ oauth_tokens = lastSave.post

\* C4: a /oauth2callback request is answered 200 only after its saveTokens has
\* executed; and when that save met an existing Credential row and the exchange
\* returned an access token and a refresh token, the row then holds exactly
\* those two non-empty tokens.
C4_CallbackPopulatesCredential ==
  /\ \A r \in Reqs :
       (reqs[r].kind = "callback" /\ reqs[r].status = 200)
       => /\ reqs[r].writes = 1
          /\ ~Falsy(Get(reqs[r].tokens, "access_token"))
  /\ (lastSave.kind = "callback" /\ lastSave.ok
        /\ (\E row \in lastSave.pre : row.id = 1)
        /\ "refresh_token" \in DOMAIN lastSave.payload)
     => /\ reqs[lastSave.by].status = 200
        /\ Cardinality(lastSave.post) = 1
        /\ TheRow(lastSave.post).access_token = lastSave.payload.access_token
        /\ TheRow(lastSave.post).refresh_token = lastSave.payload.refresh_token
        /\ ~Falsy(TheRow(lastSave.post).access_token)
        /\ ~Falsy(TheRow(lastSave.post).refresh_token)

C4_Witness ==
  /\ lastSave.kind = "callback" /\ lastSave.ok
  /\ lastSave.pre = {EmptyRow}
  /\ "refresh_token" \in DOMAIN lastSave.payload
  /\ oauth_tokens = lastSave.post
  /\ reqs[lastSave.by].status = 200

\* C5: a /oauth2callback request without code or OAuth client is answered 400
\* without any exchange; one whose exchange or save fails is answered 500; and
\* in both cases the request has written nothing to the stored Credential (a
\* failed save leaves the table as it was).
C5_CallbackFailureLeavesCredential ==
  /\ \A r \in Reqs :
       reqs[r].kind = "callback" =>
         /\ (Falsy(reqs[r].body.code) \/ ~OAuthConfigured)
            => (reqs[r].status = 400 /\ reqs[r].remote = 0 /\ reqs[r].writes = 0)
         /\ reqs[r].failed # "none"
            => (reqs[r].status = 500 /\ reqs[r].responses = 1 /\ reqs[r].writes = 0)
         /\ reqs[r].status \in {400, 500} => reqs[r].writes = 0
  /\ (lastSave.kind = "callback" /\ ~lastSave.ok) => lastSave.post = lastSave.pre

C5_Witness ==
  \E r \in Reqs :
    /\ reqs[r].kind = "callback"
    /\ reqs[r].failed = "outbound" /\ reqs[r].status = 500
    /\ StoredState = "empty"

\* C6 (as claimed): once the stored Credential has a non-empty access token it
\* keeps one, and from then on no getCalendarClient fails with NotAuthenticated.
C6_GrantedNeverNotAuthenticated ==
  [][StoredState = "token" =>
       /\ StoredState' = "token"
       /\ \A r \in Reqs :
            reqs'[r].err = "NotAuthenticated" => reqs[r].err = "NotAuthenticated"]_vars

\* The part of C6 about the stored row alone: no step takes the access token
\* away.
CredentialStaysGranted ==
  [][StoredState = "token" => StoredState' = "token"]_vars

\* C7: once the startup block has completed, oauth_tokens has exactly one row,
\* its id is 1, and every saveTokens executed since then that succeeded has
\* updated exactly one row and left the set of row ids as it was.
C7_CredentialSingleton ==
  initPc = "done" =>
    /\ Cardinality(oauth_tokens) = 1
    /\ \A row \in oauth_tokens : row.id = 1
    /\ (lastSave.kind # "none" /\ lastSave.initDone) =>
         /\ lastSave.ok => lastSave.affected = 1
         /\ {row.id : row \in lastSave.post} = {row.id : row \in lastSave.pre}
         /\ Cardinality(lastSave.post) = 1

C7_Witness ==
  /\ initPc = "done"
  /\ lastSave.kind = "listener" /\ lastSave.ok /\ lastSave.initDone
  /\ oauth_tokens = lastSave.post

\* A required field of the request is missing (absent or empty).
MissingRequired(q) ==
  CASE q.kind = "chat" -> Falsy(q.body.message)
    [] q.kind = "memPost" -> Falsy(q.body.key) \/ Falsy(q.body.value)
    [] q.kind = "evtPost" -> Falsy(q.body.title) \/ Falsy(q.body.start)
    [] q.kind = "calCreate" -> ~CalValid(q)
    [] q.kind = "images" -> Falsy(q.body.prompt)
    [] q.kind = "search" -> Falsy(q.body.q)
    [] OTHER -> FALSE

\* C8: a chat, memory, local-event, calendar-create, image or search request
\* missing a required field is answered 400, once, and has queued or done no
\* table write, no Token Store read and no outbound call.
C8_ValidationBeforeSideEffects ==
  \A r \in Reqs :
    MissingRequired(reqs[r]) =>
      /\ reqs[r].pc = "done" /\ reqs[r].status = 400 /\ reqs[r].responses = 1
      /\ reqs[r].writes = 0 /\ reqs[r].userIns = "none" /\ reqs[r].asstIns = "none"
      /\ reqs[r].loads = 0 /\ reqs[r].stored = "unread"
      /\ reqs[r].remote = 0

C8_Witness ==
  \E r \in Reqs :
    /\ reqs[r].kind = "calCreate"
    /\ ~Falsy(reqs[r].body.title) /\ ~Falsy(reqs[r].body.start)
    /\ Falsy(reqs[r].body["end"])
    /\ OAuthConfigured
    /\ reqs[r].status = 400

\* C9 (as claimed): a request whose outbound call or storage operation failed
\* has received exactly one response, an error, and nothing has escaped its
\* handler.
C9_EveryFailureAnswered ==
  \A r \in Reqs :
    /\ reqs[r].failed # "none" =>
         (reqs[r].pc = "done" /\ reqs[r].responses = 1 /\ reqs[r].status >= 400)
    /\ ~reqs[r].unhandled

\* s in reverse.
Reverse(s) == [i \in 1..Len(s) |-> s[Len(s) + 1 - i]]

\* C10: a successful GET /api/memories returns every memory inserted before its
\* query ran, unchanged, in reverse order of insertion; the table always holds
\* exactly the rows ever inserted, each as inserted; and every POST
\* /api/memories answered 200 has its key and value in the row whose id it
\* returned.
C10_MemoriesNewestFirst ==
  /\ \A r \in Reqs :
       (reqs[r].kind = "memGet" /\ reqs[r].status = 200)
       => reqs[r].result = Reverse(SubSeq(memLog, 1, reqs[r].logLen))
  /\ memories = {memLog[i] : i \in 1..Len(memLog)}
  /\ Cardinality(memories) = Len(memLog)
  /\ \A r \in Reqs :
       (reqs[r].kind = "memPost" /\ reqs[r].status = 200)
       => \E row \in memories :
            /\ row.id = reqs[r].result[1]
            /\ row.key = reqs[r].body.key
            /\ row.value = reqs[r].body.value

C10_Witness ==
  \E r \in Reqs :
    /\ reqs[r].kind = "memGet" /\ reqs[r].status = 200
    /\ Len(reqs[r].result) = 2
    /\ reqs[r].result[1].id > reqs[r].result[2].id

\* A chat request with a non-empty message, served without the AI key, whose
\* handler has ended and whose queued INSERT of the user row has settled.
ChatWithoutKeySettled(q) ==
  /\ q.kind = "chat" /\ ~Falsy(q.body.message)
  /\ env.OPENAI_API_KEY <= 0
  /\ q.pc = "done" /\ q.userIns # "queued"

\* The user-role rows of the message log with content m.
UserRows(m) ==
  {i \in 1..Len(messages) : messages[i].role = "user" /\ messages[i].content = m}

\* C11 (as claimed): with the AI key unset, a POST /api/chat with a non-empty
\* message is answered 200 with the fixed 'not configured' reply, has appended
\* exactly one user-role row with that message, has appended no assistant-role
\* row and has made no outbound call.
C11_ChatWithoutKey ==
  \A r \in Reqs :
    ChatWithoutKeySettled(reqs[r]) =>
      /\ reqs[r].status = 200 /\ reqs[r].responses = 1
      /\ reqs[r].reply = NotConfiguredReply
      /\ reqs[r].userIns = "done" /\ reqs[r].writes = 1
      /\ UserRows(reqs[r].body.message) # {}
      /\ reqs[r].asstIns = "none"
      /\ reqs[r].remote = 0

\* The part of C11 that does not depend on the INSERT succeeding: the answer,
\* at most one user-role row, no assistant-role row, no outbound call.
ChatWithoutKeyAnswer ==
  \A r \in Reqs :
    ChatWithoutKeySettled(reqs[r]) =>
      /\ reqs[r].status = 200 /\ reqs[r].responses = 1
      /\ reqs[r].reply = NotConfiguredReply
      /\ reqs[r].userIns \in {"done", "failed"}
      /\ reqs[r].writes = (IF reqs[r].userIns = "done" THEN 1 ELSE 0)
      /\ reqs[r].asstIns = "none"
      /\ \A i \in 1..Len(messages) : messages[i].role = "user"
      /\ reqs[r].remote = 0

\* The last saveTokens was a listener's, it succeeded, and it met a Credential
\* row.
ListenerSaved ==
  /\ lastSave.kind = "listener" /\ lastSave.ok
  /\ \E row \in lastSave.pre : row.id = 1

\* C12 (as claimed): under any interleaving of calendar requests, refresh
\* events and /oauth2callback exchanges, a listener's save changes only the
\* Credential fields present in its refresh payload: every field absent from
\* the payload has the same stored value right after the save as right before.
C12_ListenerTouchesOnlyPayloadFields ==
  ListenerSaved =>
    \A f \in TokenFields \ DOMAIN lastSave.payload :
      TheRow(lastSave.post)[f] = TheRow(lastSave.pre)[f]

\* What every listener save does do: it writes the payload's fields, and sets
\* every other field to the value its client loaded, whatever is stored now.
ListenerWritesSnapshot ==
  ListenerSaved =>
    \A f \in TokenFields :
      TheRow(lastSave.post)[f] =
        IF f \in DOMAIN lastSave.payload THEN lastSave.payload[f]
        ELSE lastSave.snapshot[f]

\* A listener save has put back a refresh token older than the stored one.
ListenerRevertedRefreshToken ==
  /\ ListenerSaved
  /\ "refresh_token" \notin DOMAIN lastSave.payload
  /\ TheRow(lastSave.pre).refresh_token > lastSave.snapshot.refresh_token
  /\ TheRow(lastSave.post).refresh_token = lastSave.snapshot.refresh_token

====
